---- MODULE Spec2Model ----
(***************************************************************************)
(* A model of the stateful examples of the python-learning scripts:        *)
(*   scripts/Advanced/asyncio_concurrency.py  (the asyncio demos)          *)
(*   scripts/Advanced/metaclasses.py          (SingletonMeta, AbstractMeta)*)
(*   scripts/Advanced/descriptors.py          (ReadOnly)                   *)
(*   scripts/Intermediate/context_managers.py, scripts/working_with_files.py*)
(* Time is counted in ticks of 0.1 s, the unit of every asyncio.sleep the  *)
(* modelled demos make.                                                    *)
(***************************************************************************)
EXTENDS Naturals, Integers, Sequences, FiniteSets, TLC

VARIABLES
    \* ---- asyncio_concurrency.py ----
    phase,      \* the demo asyncio.run is running (or "finished")
    now,        \* the event loop's clock, in ticks, since the demo started
    pc,         \* position of each task of the demo; task 0 is the main coroutine
    wake,       \* the deadline of each task's pending asyncio.sleep
    res,        \* each task's result: << >> while it runs, <<r>> once it returned (or raised) r
    order,      \* the child tasks in the order they finished
    results,    \* the list asyncio.gather returned to the demo
    out,        \* the lines the demo printed
    sem,        \* asyncio.Semaphore._value
    event,      \* asyncio.Event._value
    queue,      \* the asyncio.Queue's items
    idx,        \* producer: index of the next item of `items`
    cancelReq,  \* task.cancel() was called and not yet delivered
    \* ---- metaclasses.py: SingletonMeta ----
    instances,  \* SingletonMeta._instances: class -> its instance (an index of heap)
    heap,       \* the Database objects created, each with its connection_string
    initLog,    \* the connection strings Database.__init__ was run with
    calls,      \* the calls Database(arg) made so far, each with what it returned
    \* ---- metaclasses.py: AbstractMeta ----
    classes,    \* the classes derived from AbstractBase, in definition order
    lastCall,   \* the last call cls(...) and how it ended
    \* ---- descriptors.py: ReadOnly ----
    created,    \* the Entity instances that exist
    dict,       \* each instance's __dict__
    last,       \* the last descriptor operation and how it ended
    \* ---- context_managers.py, working_with_files.py ----
    script,     \* the script being run
    line,       \* the statement the script is at
    fs,         \* the working directory: file name -> content
    fs0         \* the working directory when the script started

asyncVars == <<phase, now, pc, wake, res, order, results, out, sem, event,
               queue, idx, cancelReq>>

singletonVars == <<instances, heap, initLog, calls>>
abstractVars == <<classes, lastCall>>
readonlyVars == <<created, dict, last>>
fileVars == <<script, line, fs, fs0>>

otherThanAsync == <<singletonVars, abstractVars, readonlyVars, fileVars>>
otherThanSingleton == <<asyncVars, abstractVars, readonlyVars, fileVars>>
otherThanAbstract == <<asyncVars, singletonVars, readonlyVars, fileVars>>
otherThanReadOnly == <<asyncVars, singletonVars, abstractVars, fileVars>>
otherThanFiles == <<asyncVars, singletonVars, abstractVars, readonlyVars>>

vars == <<asyncVars, singletonVars, abstractVars, readonlyVars, fileVars>>

(***************************************************************************)
(* asyncio_concurrency.py                                                  *)
(***************************************************************************)

\* The demos run by asyncio.run, in the order of the script.
Demos == <<"greet_many", "process_with_tasks", "cancel_demo",
           "limited_concurrency", "event_demo", "producer_consumer",
           "handle_exceptions">>

RECURSIVE DemoIndex(_, _)
DemoIndex(p, i) == IF Demos[i] = p THEN i ELSE DemoIndex(p, i + 1)

NextDemoOf(p) ==
    LET i == DemoIndex(p, 1)
    IN  IF i = Len(Demos) THEN "finished" ELSE Demos[i + 1]

\* Number of child tasks of each demo (gather's arguments, or create_task's).
NumChildren(p) ==
    CASE p = "greet_many"          -> 3
      [] p = "process_with_tasks"  -> 3
      [] p = "cancel_demo"         -> 1
      [] p = "limited_concurrency" -> 5
      [] p = "event_demo"          -> 3
      [] p = "producer_consumer"   -> 2
      [] p = "handle_exceptions"   -> 3
      [] OTHER                     -> 0

Children == 1 .. NumChildren(phase)

None == "None"

\* Arguments of the calls, by position.
GreetNames  == <<"Alice", "Bob", "Charlie">>
GreetDelays == <<3, 2, 1>>
FetchSources == <<"API", "Database", "Cache">>
FetchDelays  == <<3, 2, 1>>
IdStr == <<"0", "1", "2", "3", "4", "5">>
WaiterNames == <<"Waiter1", "Waiter2">>
items == <<"apple", "banana", "cherry", "date">>
ShouldFail == <<FALSE, TRUE, FALSE>>

\* asyncio.Semaphore(2); the faulty variant admits one task more.
SemaphoreValueMut == 2 + 1
SemaphoreValue == 2
QueueMaxsize == 3
CancellableSleep == 100
CancelDemoSleep == 1
LimitedSleep == 2
SetterSleep == 3
ProducerSleep == 1
MightFailSleep == 1

\* The state a demo starts in: asyncio.run(demo()) has run the main coroutine
\* up to its first suspension.  cancel_demo creates its task in its first step.
DemoPc(p) ==
    [t \in 0 .. NumChildren(p) |->
        IF t = 0 THEN (IF p = "cancel_demo" THEN "start"
                       ELSE IF p = "finished" THEN "done" ELSE "gather")
        ELSE IF p = "cancel_demo" THEN "uncreated" ELSE "start"]

StartDemo(p) ==
    /\ phase' = p
    /\ now' = 0
    /\ pc' = DemoPc(p)
    /\ wake' = [t \in 0 .. NumChildren(p) |-> 0]
    /\ res' = [t \in 0 .. NumChildren(p) |-> << >>]
    /\ order' = << >>
    /\ results' = << >>
    /\ out' = << >>
    /\ sem' = SemaphoreValue
    /\ event' = FALSE
    /\ queue' = << >>
    /\ idx' = 1
    /\ cancelReq' = FALSE

InitAsync ==
    /\ phase = Demos[1]
    /\ now = 0
    /\ pc = DemoPc(Demos[1])
    /\ wake = [t \in 0 .. NumChildren(Demos[1]) |-> 0]
    /\ res = [t \in 0 .. NumChildren(Demos[1]) |-> << >>]
    /\ order = << >>
    /\ results = << >>
    /\ out = << >>
    /\ sem = SemaphoreValue
    /\ event = FALSE
    /\ queue = << >>
    /\ idx = 1
    /\ cancelReq = FALSE

Finished(t) == pc[t] \in {"done", "failed", "cancelled"}

\* A task is sleeping when it is suspended in asyncio.sleep.
Sleeping(t) == pc[t] = "sleep"

\* asyncio.Event.wait returns once the event is set (faulty variant: at once).
EventWaitReadyMut(e) == TRUE
EventWaitReady(e) == e

\* A task the loop can resume now.
Ready(t) ==
    CASE pc[t] = "start"   -> IF phase = "limited_concurrency" THEN sem > 0 ELSE TRUE
      [] pc[t] = "sleep"   -> \/ wake[t] <= now /\ (phase = "producer_consumer" => Len(queue) < QueueMaxsize)
                              \/ cancelReq /\ t = 1
      [] pc[t] = "wait"    -> EventWaitReady(event)
      [] pc[t] = "putNone" -> Len(queue) < QueueMaxsize
      [] pc[t] = "get"     -> Len(queue) > 0
      [] pc[t] = "gather"  -> \A c \in Children : Finished(c)
      [] pc[t] = "await"   -> Finished(1)
      [] OTHER             -> FALSE

RECURSIVE MinOf(_)
MinOf(S) == LET x == CHOOSE y \in S : TRUE
            IN  IF S = {x} THEN x
                ELSE LET m == MinOf(S \ {x}) IN IF x < m THEN x ELSE m

\* The loop has nothing to run: it waits for the earliest timer.
AdvanceTime ==
    /\ phase # "finished"
    /\ \A t \in DOMAIN pc : ~Ready(t)
    /\ \E t \in DOMAIN pc : Sleeping(t) /\ wake[t] > now
    /\ now' = MinOf({wake[t] : t \in {u \in DOMAIN pc : Sleeping(u) /\ wake[u] > now}})
    /\ UNCHANGED <<phase, pc, wake, res, order, results, out, sem, event,
                   queue, idx, cancelReq>>
    /\ UNCHANGED otherThanAsync

\* asyncio.gather's result: the children's results in argument order
\* (faulty variant: in completion order).
GatherResultsMut(n) == [i \in 1 .. n |-> res[order[i]][1]]
GatherResults(n) == [i \in 1 .. n |-> res[i][1]]

\* ---- greet_many / say_hello ----
SayHelloStart(t) ==
    /\ phase = "greet_many" /\ t \in Children /\ pc[t] = "start"
    /\ pc' = [pc EXCEPT ![t] = "sleep"]
    /\ wake' = [wake EXCEPT ![t] = now + GreetDelays[t]]
    /\ UNCHANGED <<phase, now, res, order, results, out, sem, event, queue, idx, cancelReq>>
    /\ UNCHANGED otherThanAsync

SayHelloWake(t) ==
    /\ phase = "greet_many" /\ t \in Children /\ pc[t] = "sleep" /\ Ready(t)
    /\ LET message == "Hello, " \o GreetNames[t] \o "!"
       IN  /\ out' = Append(out, message)
           /\ res' = [res EXCEPT ![t] = <<message>>]
    /\ pc' = [pc EXCEPT ![t] = "done"]
    /\ order' = Append(order, t)
    /\ UNCHANGED <<phase, now, wake, results, sem, event, queue, idx, cancelReq>>
    /\ UNCHANGED otherThanAsync

\* ---- process_with_tasks / fetch_data ----
FetchStart(t) ==
    /\ phase = "process_with_tasks" /\ t \in Children /\ pc[t] = "start"
    /\ out' = Append(out, "Starting fetch from " \o FetchSources[t] \o "...")
    /\ pc' = [pc EXCEPT ![t] = "sleep"]
    /\ wake' = [wake EXCEPT ![t] = now + FetchDelays[t]]
    /\ UNCHANGED <<phase, now, res, order, results, sem, event, queue, idx, cancelReq>>
    /\ UNCHANGED otherThanAsync

FetchWake(t) ==
    /\ phase = "process_with_tasks" /\ t \in Children /\ pc[t] = "sleep" /\ Ready(t)
    /\ res' = [res EXCEPT ![t] = <<[source |-> FetchSources[t],
                                    data |-> "Data from " \o FetchSources[t]]>>]
    /\ pc' = [pc EXCEPT ![t] = "done"]
    /\ order' = Append(order, t)
    /\ UNCHANGED <<phase, now, wake, results, out, sem, event, queue, idx, cancelReq>>
    /\ UNCHANGED otherThanAsync

\* ---- cancel_demo / cancellable_task ----
\* cancel_demo up to its first suspension: create_task, then sleep(0.1).
CancelDemoStart ==
    /\ phase = "cancel_demo" /\ pc[0] = "start"
    /\ pc' = [pc EXCEPT ![0] = "sleep", ![1] = "start"]
    /\ wake' = [wake EXCEPT ![0] = now + CancelDemoSleep]
    /\ UNCHANGED <<phase, now, res, order, results, out, sem, event, queue, idx, cancelReq>>
    /\ UNCHANGED otherThanAsync

\* The task's first step.  A task cancelled before it ever ran gets the
\* CancelledError at its first line, outside the try block.
CancellableStart ==
    /\ phase = "cancel_demo" /\ pc[1] = "start"
    /\ IF cancelReq
       THEN /\ pc' = [pc EXCEPT ![1] = "cancelled"]
            /\ order' = Append(order, 1)
            /\ cancelReq' = FALSE
            /\ UNCHANGED <<out, wake>>
       ELSE /\ out' = Append(out, "Task started...")
            /\ pc' = [pc EXCEPT ![1] = "sleep"]
            /\ wake' = [wake EXCEPT ![1] = now + CancellableSleep]
            /\ UNCHANGED <<order, cancelReq>>
    /\ UNCHANGED <<phase, now, res, results, sem, event, queue, idx>>
    /\ UNCHANGED otherThanAsync

\* What the except block of cancellable_task ends with: `raise`, so the task
\* ends cancelled (faulty variant: no raise, the task ends normally).
ExceptBlockEndMut == "done"
ExceptBlockEnd == "cancelled"

\* The task resumes from `await asyncio.sleep(10)`: with CancelledError when
\* it was cancelled meanwhile (the except block runs), else because the
\* sleep ran out (the task completes).
CancellableResume ==
    /\ phase = "cancel_demo" /\ pc[1] = "sleep" /\ Ready(1)
    /\ IF cancelReq
       THEN /\ out' = Append(out, "Task was cancelled!")
            /\ pc' = [pc EXCEPT ![1] = ExceptBlockEnd]
            /\ cancelReq' = FALSE
       ELSE /\ out' = Append(out, "Task completed!")
            /\ pc' = [pc EXCEPT ![1] = "done"]
            /\ UNCHANGED cancelReq
    /\ order' = Append(order, 1)
    /\ UNCHANGED <<phase, now, wake, res, results, sem, event, queue, idx>>
    /\ UNCHANGED otherThanAsync

\* cancel_demo wakes from sleep(0.1): task.cancel(), then `await task`.
\* cancel() on a finished task does nothing.
CancelDemoCancel ==
    /\ phase = "cancel_demo" /\ pc[0] = "sleep" /\ Ready(0)
    /\ cancelReq' = ~Finished(1)
    /\ pc' = [pc EXCEPT ![0] = "await"]
    /\ UNCHANGED <<phase, now, wake, res, order, results, out, sem, event, queue, idx>>
    /\ UNCHANGED otherThanAsync

\* `await task` ends: with CancelledError (caught) or with the task's result.
CancelDemoAwait ==
    /\ phase = "cancel_demo" /\ pc[0] = "await" /\ Ready(0)
    /\ out' = IF pc[1] = "cancelled"
              THEN Append(out, "Caught cancellation in main") ELSE out
    /\ pc' = [pc EXCEPT ![0] = "done"]
    /\ UNCHANGED <<phase, now, wake, res, order, results, sem, event, queue, idx, cancelReq>>
    /\ UNCHANGED otherThanAsync

\* ---- limited_concurrency / limited_operation ----
\* `async with semaphore` entered: Semaphore.acquire succeeded.
LimitedAcquire(t) ==
    /\ phase = "limited_concurrency" /\ t \in Children /\ pc[t] = "start" /\ Ready(t)
    /\ sem' = sem - 1
    /\ out' = Append(out, "Task " \o IdStr[t] \o " acquired semaphore")
    /\ pc' = [pc EXCEPT ![t] = "sleep"]
    /\ wake' = [wake EXCEPT ![t] = now + LimitedSleep]
    /\ UNCHANGED <<phase, now, res, order, results, event, queue, idx, cancelReq>>
    /\ UNCHANGED otherThanAsync

\* The sleep ends; `return task_id` leaves the block, which releases.
LimitedRelease(t) ==
    /\ phase = "limited_concurrency" /\ t \in Children /\ pc[t] = "sleep" /\ Ready(t)
    /\ out' = Append(out, "Task " \o IdStr[t] \o " releasing semaphore")
    /\ sem' = sem + 1
    /\ res' = [res EXCEPT ![t] = <<t - 1>>]
    /\ pc' = [pc EXCEPT ![t] = "done"]
    /\ order' = Append(order, t)
    /\ UNCHANGED <<phase, now, wake, results, event, queue, idx, cancelReq>>
    /\ UNCHANGED otherThanAsync

\* ---- event_demo / waiter / setter ----
WaiterStart(t) ==
    /\ phase = "event_demo" /\ t \in {1, 2} /\ pc[t] = "start"
    /\ out' = Append(out, WaiterNames[t] \o " waiting for event...")
    /\ pc' = [pc EXCEPT ![t] = "wait"]
    /\ UNCHANGED <<phase, now, wake, res, order, results, sem, event, queue, idx, cancelReq>>
    /\ UNCHANGED otherThanAsync

WaiterReceive(t) ==
    /\ phase = "event_demo" /\ t \in {1, 2} /\ pc[t] = "wait" /\ Ready(t)
    /\ out' = Append(out, WaiterNames[t] \o " received event!")
    /\ pc' = [pc EXCEPT ![t] = "done"]
    /\ res' = [res EXCEPT ![t] = <<None>>]
    /\ order' = Append(order, t)
    /\ UNCHANGED <<phase, now, wake, results, sem, event, queue, idx, cancelReq>>
    /\ UNCHANGED otherThanAsync

SetterStart ==
    /\ phase = "event_demo" /\ pc[3] = "start"
    /\ pc' = [pc EXCEPT ![3] = "sleep"]
    /\ wake' = [wake EXCEPT ![3] = now + SetterSleep]
    /\ UNCHANGED <<phase, now, res, order, results, out, sem, event, queue, idx, cancelReq>>
    /\ UNCHANGED otherThanAsync

SetterSet ==
    /\ phase = "event_demo" /\ pc[3] = "sleep" /\ Ready(3)
    /\ out' = Append(out, "Setting event...")
    /\ event' = TRUE
    /\ pc' = [pc EXCEPT ![3] = "done"]
    /\ res' = [res EXCEPT ![3] = <<None>>]
    /\ order' = Append(order, 3)
    /\ UNCHANGED <<phase, now, wake, results, sem, queue, idx, cancelReq>>
    /\ UNCHANGED otherThanAsync

\* ---- producer_consumer / producer / consumer ----
\* producer is task 1, consumer is task 2.
ProducerStart ==
    /\ phase = "producer_consumer" /\ pc[1] = "start"
    /\ IF idx <= Len(items)
       THEN /\ pc' = [pc EXCEPT ![1] = "sleep"]
            /\ wake' = [wake EXCEPT ![1] = now + ProducerSleep]
       ELSE /\ pc' = [pc EXCEPT ![1] = "putNone"]
            /\ UNCHANGED wake
    /\ UNCHANGED <<phase, now, res, order, results, out, sem, event, queue, idx, cancelReq>>
    /\ UNCHANGED otherThanAsync

\* What the producer puts after the loop: the end signal (faulty variant:
\* nothing).
ProducerSignalMut(q) == q
ProducerSignal(q) == Append(q, None)

\* The producer resumes once the queue has room: from the sleep, to put the
\* item, print, and go on to the next sleep (after the last item: to
\* queue.put(None), which does not suspend when the queue has room); or from
\* a queue.put(None) that had to wait.
ProducerPut ==
    /\ phase = "producer_consumer" /\ pc[1] \in {"sleep", "putNone"} /\ Ready(1)
    /\ IF pc[1] = "putNone"
       THEN /\ queue' = ProducerSignal(queue)
            /\ pc' = [pc EXCEPT ![1] = "done"]
            /\ res' = [res EXCEPT ![1] = <<None>>]
            /\ order' = Append(order, 1)
            /\ UNCHANGED <<wake, out, idx>>
       ELSE LET q1 == Append(queue, items[idx])
            IN  /\ out' = Append(out, "Produced: " \o items[idx])
                /\ idx' = idx + 1
                /\ IF idx < Len(items)
                   THEN /\ queue' = q1
                        /\ pc' = [pc EXCEPT ![1] = "sleep"]
                        /\ wake' = [wake EXCEPT ![1] = now + ProducerSleep]
                        /\ UNCHANGED <<order, res>>
                   ELSE IF Len(q1) < QueueMaxsize
                   THEN /\ queue' = ProducerSignal(q1)
                        /\ pc' = [pc EXCEPT ![1] = "done"]
                        /\ res' = [res EXCEPT ![1] = <<None>>]
                        /\ order' = Append(order, 1)
                        /\ UNCHANGED wake
                   ELSE /\ queue' = q1
                        /\ pc' = [pc EXCEPT ![1] = "putNone"]
                        /\ UNCHANGED <<wake, order, res>>
    /\ UNCHANGED <<phase, now, results, sem, event, cancelReq>>
    /\ UNCHANGED otherThanAsync

\* The consumer's loop from one suspension to the next: queue.get does not
\* suspend while the queue has items.  Returns the lines printed, the queue
\* left, and whether the loop ended (None was received).
RECURSIVE ConsumeLoop(_, _)
ConsumeLoop(q, printed) ==
    IF q = << >> THEN [printed |-> printed, queue |-> q, stopped |-> FALSE]
    ELSE LET item == Head(q)
         IN  IF item = None
             THEN [printed |-> printed, queue |-> Tail(q), stopped |-> TRUE]
             ELSE ConsumeLoop(Tail(q), Append(printed, "Consumed: " \o item))

ConsumerGet ==
    /\ phase = "producer_consumer" /\ pc[2] \in {"start", "get"}
    /\ IF queue = << >>
       THEN /\ pc[2] = "start"
            /\ pc' = [pc EXCEPT ![2] = "get"]
            /\ UNCHANGED <<out, queue, order, res>>
       ELSE LET r == ConsumeLoop(queue, << >>)
            IN  /\ out' = out \o r.printed
                /\ queue' = r.queue
                /\ pc' = [pc EXCEPT ![2] = IF r.stopped THEN "done" ELSE "get"]
                /\ res' = IF r.stopped THEN [res EXCEPT ![2] = <<None>>] ELSE res
                /\ order' = IF r.stopped THEN Append(order, 2) ELSE order
    /\ UNCHANGED <<phase, now, wake, results, sem, event, idx, cancelReq>>
    /\ UNCHANGED otherThanAsync

\* ---- handle_exceptions / might_fail ----
MightFailStart(t) ==
    /\ phase = "handle_exceptions" /\ t \in Children /\ pc[t] = "start"
    /\ pc' = [pc EXCEPT ![t] = "sleep"]
    /\ wake' = [wake EXCEPT ![t] = now + MightFailSleep]
    /\ UNCHANGED <<phase, now, res, order, results, out, sem, event, queue, idx, cancelReq>>
    /\ UNCHANGED otherThanAsync

MightFailWake(t) ==
    /\ phase = "handle_exceptions" /\ t \in Children /\ pc[t] = "sleep" /\ Ready(t)
    /\ IF ShouldFail[t]
       THEN /\ res' = [res EXCEPT ![t] = <<[exception |-> "ValueError",
                                            message |-> "Task " \o IdStr[t + 1] \o " failed!"]>>]
            /\ pc' = [pc EXCEPT ![t] = "failed"]
       ELSE /\ res' = [res EXCEPT ![t] = <<[exception |-> "",
                                            message |-> "Task " \o IdStr[t + 1] \o " succeeded"]>>]
            /\ pc' = [pc EXCEPT ![t] = "done"]
    /\ order' = Append(order, t)
    /\ UNCHANGED <<phase, now, wake, results, out, sem, event, queue, idx, cancelReq>>
    /\ UNCHANGED otherThanAsync

\* The return_exceptions argument of the gather in handle_exceptions (faulty
\* variant: the default, False).
ReturnExceptionsMut == FALSE
ReturnExceptions == TRUE

IsException(r) == r.exception # ""

RECURSIVE ReportLines(_, _)
ReportLines(rs, i) ==
    IF i > Len(rs) THEN << >>
    ELSE <<IF IsException(rs[i])
           THEN "Task " \o IdStr[i + 1] \o ": Error - " \o rs[i].message
           ELSE "Task " \o IdStr[i + 1] \o ": " \o rs[i].message>>
         \o ReportLines(rs, i + 1)

\* gather ends.  With return_exceptions it waits for every child and returns
\* the list, exceptions included, and handle_exceptions prints its report;
\* without, the first exception is raised out of handle_exceptions.
HandleExceptionsGather ==
    /\ phase = "handle_exceptions" /\ pc[0] = "gather"
    /\ IF ReturnExceptions
       THEN /\ \A c \in Children : Finished(c)
            /\ results' = GatherResults(NumChildren(phase))
            /\ out' = out \o ReportLines(results', 1)
            /\ pc' = [pc EXCEPT ![0] = "done"]
       ELSE /\ \/ \E c \in Children : pc[c] = "failed"
               \/ \A c \in Children : Finished(c)
            /\ IF \E c \in Children : pc[c] = "failed"
               THEN /\ pc' = [pc EXCEPT ![0] = "raised"]
                    /\ UNCHANGED <<results, out>>
               ELSE /\ results' = GatherResults(NumChildren(phase))
                    /\ out' = out \o ReportLines(results', 1)
                    /\ pc' = [pc EXCEPT ![0] = "done"]
    /\ UNCHANGED <<phase, now, wake, res, order, sem, event, queue, idx, cancelReq>>
    /\ UNCHANGED otherThanAsync

\* The main coroutine of a demo that only gathers: gather returns, the
\* coroutine returns.
GatherReturn ==
    /\ phase \in {"greet_many", "process_with_tasks", "limited_concurrency",
                  "event_demo", "producer_consumer"}
    /\ pc[0] = "gather" /\ Ready(0)
    /\ results' = GatherResults(NumChildren(phase))
    /\ pc' = [pc EXCEPT ![0] = "done"]
    /\ UNCHANGED <<phase, now, wake, res, order, out, sem, event, queue, idx, cancelReq>>
    /\ UNCHANGED otherThanAsync

\* asyncio.run returned; the script goes on to the next demo.
NextDemo ==
    /\ phase # "finished" /\ pc[0] = "done"
    /\ StartDemo(NextDemoOf(phase))
    /\ UNCHANGED otherThanAsync

NextAsync ==
    \/ AdvanceTime
    \/ \E t \in Children : SayHelloStart(t)
    \/ \E t \in Children : SayHelloWake(t)
    \/ \E t \in Children : FetchStart(t)
    \/ \E t \in Children : FetchWake(t)
    \/ CancelDemoStart
    \/ CancellableStart
    \/ CancellableResume
    \/ CancelDemoCancel
    \/ CancelDemoAwait
    \/ \E t \in Children : LimitedAcquire(t)
    \/ \E t \in Children : LimitedRelease(t)
    \/ \E t \in Children : WaiterStart(t)
    \/ \E t \in Children : WaiterReceive(t)
    \/ SetterStart
    \/ SetterSet
    \/ ProducerStart
    \/ ProducerPut
    \/ ConsumerGet
    \/ \E t \in Children : MightFailStart(t)
    \/ \E t \in Children : MightFailWake(t)
    \/ HandleExceptionsGather
    \/ GatherReturn
    \/ NextDemo

(***************************************************************************)
(* metaclasses.py: SingletonMeta and Database                              *)
(***************************************************************************)

MaxCalls == 4

\* What a call Database(...) can be given; "default" is the default argument.
ConnectionStrings == {"postgresql://localhost/db1", "mysql://localhost/db2", "default"}

InitSingleton ==
    /\ instances = << >>
    /\ heap = << >>
    /\ initLog = << >>
    /\ calls = << >>

\* `cls in cls._instances` (faulty variant: never found)
HasInstanceMut(cls) == FALSE
HasInstance(cls) == cls \in DOMAIN instances

\* SingletonMeta.__call__(Database, cs).  type.__call__ makes the object and
\* runs Database.__init__ on it, which stores cs and prints.
SingletonCall(cs) ==
    /\ Len(calls) < MaxCalls
    /\ IF ~HasInstance("Database")
       THEN /\ heap' = Append(heap, [connection_string |-> cs])
            /\ initLog' = Append(initLog, cs)
            /\ instances' = [c \in DOMAIN instances \cup {"Database"} |->
                                IF c = "Database" THEN Len(heap) + 1 ELSE instances[c]]
       ELSE UNCHANGED <<heap, initLog, instances>>
    /\ calls' = Append(calls, [arg |-> cs, ret |-> instances'["Database"]])
    /\ UNCHANGED otherThanSingleton

NextSingleton == \E cs \in ConnectionStrings : SingletonCall(cs)

(***************************************************************************)
(* metaclasses.py: AbstractMeta, AbstractBase, Shape, Rectangle            *)
(***************************************************************************)

MaxClasses == 2

Methods == {"area", "perimeter"}

\* What a class body says of a method name: nothing, a definition marked
\* @abstractmethod, or a plain definition.
Bodies == [Methods -> {"absent", "abstract", "concrete"}]

\* cls.__mro__ without object, for the single inheritance modelled: the class,
\* its base, its base's base, ...  A class is its index in `classes`; base 0
\* is object.
RECURSIVE Mro(_, _)
Mro(cs, c) == IF c = 0 THEN << >> ELSE <<c>> \o Mro(cs, cs[c].base)

Range(f) == {f[i] : i \in DOMAIN f}

\* AbstractBase.__init_subclass__ for a class with body `body` and base
\* `base`: the names marked abstract anywhere in the MRO, less those the
\* class's own body defines without the mark.
InitSubclass(cs, base, body) ==
    LET collected == {m \in Methods :
                         \/ body[m] = "abstract"
                         \/ \E b \in Range(Mro(cs, base)) : cs[b].body[m] = "abstract"}
    IN  {m \in collected : ~(body[m] = "concrete")}

AbstractBaseClass ==
    [name |-> "AbstractBase", base |-> 0,
     body |-> [m \in Methods |-> "absent"], abstract_methods |-> {}]

ShapeBody == [m \in Methods |-> "abstract"]
RectangleBody == [m \in Methods |-> "concrete"]

\* The classes the script defines: AbstractBase (1), Shape (2), Rectangle (3).
ScriptClasses ==
    LET c1 == <<AbstractBaseClass>>
        c2 == Append(c1, [name |-> "Shape", base |-> 1, body |-> ShapeBody,
                          abstract_methods |-> InitSubclass(c1, 1, ShapeBody)])
    IN  Append(c2, [name |-> "Rectangle", base |-> 2, body |-> RectangleBody,
                    abstract_methods |-> InitSubclass(c2, 2, RectangleBody)])

InitAbstract ==
    /\ classes = ScriptClasses
    /\ lastCall = [cls |-> 0, outcome |-> "none"]

\* class Sub(Base): <body>
DefineClass(base, body) ==
    /\ Len(classes) < Len(ScriptClasses) + MaxClasses
    /\ base \in DOMAIN classes
    /\ classes' = Append(classes,
                         [name |-> "Sub", base |-> base, body |-> body,
                          abstract_methods |-> InitSubclass(classes, base, body)])
    /\ UNCHANGED lastCall
    /\ UNCHANGED otherThanAbstract

\* AbstractMeta.__call__(cls): getattr(cls, '__abstract_methods__', set()) is
\* the set __init_subclass__ stored (empty for AbstractBase, which has none).
AbstractMetaCall(c) ==
    /\ c \in DOMAIN classes
    /\ lastCall' = [cls |-> c,
                    outcome |-> IF classes[c].abstract_methods # {}
                                THEN "TypeError" ELSE "instance"]
    /\ UNCHANGED classes
    /\ UNCHANGED otherThanAbstract

NextAbstract ==
    \/ \E base \in 1 .. Len(ScriptClasses) + MaxClasses, body \in Bodies : DefineClass(base, body)
    \/ \E c \in 1 .. Len(ScriptClasses) + MaxClasses : AbstractMetaCall(c)

(***************************************************************************)
(* descriptors.py: ReadOnly and Entity                                     *)
(***************************************************************************)

MaxEntities == 2

Objs == 1 .. MaxEntities

\* The values assigned: the script uses 42 and 100; None is a value too.
Values == {"42", "100", None}

\* Entity.id = ReadOnly(): initial_value is None; __set_name__ gives the names.
initial_value == None
name == "id"
private_name == "_readonly_" \o name

NoOp == [op |-> "none", obj |-> 0, value |-> None, raised |-> "", result |-> None]

InitReadOnly ==
    /\ created = {}
    /\ dict = [o \in Objs |-> << >>]
    /\ last = NoOp

\* hasattr(obj, self.private_name) (faulty variant: never)
HasPrivateMut(d) == FALSE
HasPrivate(d) == private_name \in DOMAIN d

\* ReadOnly.__set__: the instance's __dict__ afterwards, and what was raised.
ReadOnlySet(d, value) ==
    IF HasPrivate(d)
    THEN [dict |-> d, raised |-> "AttributeError"]
    ELSE [dict |-> [k \in DOMAIN d \cup {private_name} |->
                       IF k = private_name THEN value ELSE d[k]],
          raised |-> ""]

\* ReadOnly.__get__ on an instance: getattr(obj, private_name, initial_value)
ReadOnlyGet(d) == IF private_name \in DOMAIN d THEN d[private_name] ELSE initial_value

\* object.__new__(Entity): an instance whose __init__ has not assigned id.
EntityNew(o) ==
    /\ o \notin created
    /\ created' = created \cup {o}
    /\ dict' = [dict EXCEPT ![o] = << >>]
    /\ last' = [NoOp EXCEPT !.op = "new", !.obj = o]
    /\ UNCHANGED otherThanReadOnly

\* Entity(entity_id): a new instance, and __init__'s `self.id = entity_id`.
EntityCall(o, v) ==
    /\ o \notin created
    /\ created' = created \cup {o}
    /\ LET r == ReadOnlySet(<< >>, v)
       IN  /\ dict' = [dict EXCEPT ![o] = r.dict]
           /\ last' = [NoOp EXCEPT !.op = "call", !.obj = o, !.value = v,
                                   !.raised = r.raised]
    /\ UNCHANGED otherThanReadOnly

\* obj.id = v
SetId(o, v) ==
    /\ o \in created
    /\ LET r == ReadOnlySet(dict[o], v)
       IN  /\ dict' = [dict EXCEPT ![o] = r.dict]
           /\ last' = [NoOp EXCEPT !.op = "set", !.obj = o, !.value = v,
                                   !.raised = r.raised]
    /\ UNCHANGED created
    /\ UNCHANGED otherThanReadOnly

\* obj.id
GetId(o) ==
    /\ o \in created
    /\ last' = [NoOp EXCEPT !.op = "get", !.obj = o, !.result = ReadOnlyGet(dict[o])]
    /\ UNCHANGED <<created, dict>>
    /\ UNCHANGED otherThanReadOnly

NextReadOnly ==
    \/ \E o \in Objs : EntityNew(o)
    \/ \E o \in Objs, v \in Values : EntityCall(o, v)
    \/ \E o \in Objs, v \in Values : SetId(o, v)
    \/ \E o \in Objs : GetId(o)

(***************************************************************************)
(* context_managers.py and working_with_files.py: the files they touch     *)
(***************************************************************************)

Scripts == {"context_managers.py", "working_with_files.py"}

\* The names the two scripts open.
FileNames == {"test_file.txt", "nonexistent_file.txt", "file1.txt", "file2.txt",
              "sample.txt"}

\* The list of the cleanup loop of context_managers.py (faulty variant: a
\* file short).
CleanupListMut == <<"test_file.txt", "file1.txt">>
CleanupList == <<"test_file.txt", "file1.txt", "file2.txt">>

\* A directory holding the files S, each with some earlier content.
OldFiles(S) == [f \in S |-> "old"]

InitFiles ==
    /\ script \in Scripts
    /\ line = 1
    /\ \E S \in SUBSET FileNames : fs = OldFiles(S)
    /\ fs0 = fs

\* open(f, "w"), write(text), close: the file exists with that content.
WriteFile(d, f, text) == [g \in DOMAIN d \cup {f} |-> IF g = f THEN text ELSE d[g]]

\* os.remove(f)
RemoveFile(d, f) == [g \in DOMAIN d \ {f} |-> d[g]]

\* with FileManager("test_file.txt", "w") as f: f.write(...)
CmWriteTestFile ==
    /\ script = "context_managers.py" /\ line = 1
    /\ fs' = WriteFile(fs, "test_file.txt", "Hello from custom context manager!")
    /\ line' = 2
    /\ UNCHANGED <<script, fs0>>
    /\ UNCHANGED otherThanFiles

\* with suppress(FileNotFoundError): open("nonexistent_file.txt", "r") ...
\* reads the file or suppresses the error; the directory is as before.
CmReadNonexistent ==
    /\ script = "context_managers.py" /\ line = 2
    /\ line' = 3
    /\ UNCHANGED <<script, fs, fs0>>
    /\ UNCHANGED otherThanFiles

\* with FileManager("file1.txt", "w") as f1, FileManager("file2.txt", "w") as f2
CmWriteTwoFiles ==
    /\ script = "context_managers.py" /\ line = 3
    /\ fs' = WriteFile(WriteFile(fs, "file1.txt", "Content for file 1"),
                       "file2.txt", "Content for file 2")
    /\ line' = 4
    /\ UNCHANGED <<script, fs0>>
    /\ UNCHANGED otherThanFiles

\* One round of the cleanup loop: if os.path.exists(f): os.remove(f).
\* Lines 4 .. 3 + Len(CleanupList) are the rounds; the script ends after.
CmCleanup ==
    /\ script = "context_managers.py"
    /\ line \in 4 .. 3 + Len(CleanupList)
    /\ LET f == CleanupList[line - 3]
       IN  fs' = IF f \in DOMAIN fs THEN RemoveFile(fs, f) ELSE fs
    /\ line' = IF line = 3 + Len(CleanupList) THEN 0 ELSE line + 1
    /\ UNCHANGED <<script, fs0>>
    /\ UNCHANGED otherThanFiles

\* with open(filename, "w") as file: file.write(...)
WfWrite ==
    /\ script = "working_with_files.py" /\ line = 1
    /\ fs' = WriteFile(fs, "sample.txt", "This is a sample file.\nLearning Python is fun!")
    /\ line' = 2
    /\ UNCHANGED <<script, fs0>>
    /\ UNCHANGED otherThanFiles

\* with open(filename, "r") as file: content = file.read(); the script ends.
WfRead ==
    /\ script = "working_with_files.py" /\ line = 2
    /\ line' = 0
    /\ UNCHANGED <<script, fs, fs0>>
    /\ UNCHANGED otherThanFiles

\* The script has ended.
ScriptEnded == line = 0

NextFiles ==
    \/ CmWriteTestFile
    \/ CmReadNonexistent
    \/ CmWriteTwoFiles
    \/ CmCleanup
    \/ WfWrite
    \/ WfRead

(***************************************************************************)
(* Specifications: one per script section.  The variables of the other     *)
(* sections rest at fixed values.                                          *)
(***************************************************************************)

IdleAsync ==
    /\ phase = "finished"
    /\ now = 0
    /\ pc = DemoPc("finished")
    /\ wake = [t \in {0} |-> 0]
    /\ res = [t \in {0} |-> << >>]
    /\ order = << >>
    /\ results = << >>
    /\ out = << >>
    /\ sem = SemaphoreValue
    /\ event = FALSE
    /\ queue = << >>
    /\ idx = 1
    /\ cancelReq = FALSE

IdleFiles ==
    /\ script = "none"
    /\ line = 0
    /\ fs = << >>
    /\ fs0 = << >>

InitA == InitAsync /\ InitSingleton /\ InitAbstract /\ InitReadOnly /\ IdleFiles
InitS == IdleAsync /\ InitSingleton /\ InitAbstract /\ InitReadOnly /\ IdleFiles
InitF == IdleAsync /\ InitSingleton /\ InitAbstract /\ InitReadOnly /\ InitFiles

SpecAsync == InitA /\ [][NextAsync]_vars

\* The event loop keeps running callbacks and timers while there are any.
FairSpecAsync == SpecAsync /\ WF_vars(NextAsync)

SpecSingleton == InitS /\ [][NextSingleton]_vars

SpecAbstract == InitS /\ [][NextAbstract]_vars

SpecReadOnly == InitS /\ [][NextReadOnly]_vars

SpecFiles == InitF /\ [][NextFiles]_vars

(***************************************************************************)
(* The properties checked                                                  *)
(***************************************************************************)

IsPrefix(a, b) == Len(a) <= Len(b) /\ \A i \in DOMAIN a : a[i] = b[i]

\* ---------------------------------------------------------------- C1
C1_Inside == {t \in DOMAIN pc \ {0} : pc[t] = "sleep"}

\* C1: in limited_concurrency, at every point at most 2 of the 5 tasks are
\* inside the `async with semaphore` block (between "acquired semaphore" and
\* "releasing semaphore").
C1_AtMostTwoInside ==
    phase = "limited_concurrency" => Cardinality(C1_Inside) <= 2

\* Two tasks are inside, one has already released, and others are kept waiting.
C1_Witness ==
    /\ phase = "limited_concurrency"
    /\ Cardinality(C1_Inside) = 2
    /\ \E t \in DOMAIN pc : pc[t] = "done"
    /\ \E t \in DOMAIN pc : pc[t] = "start"

\* ---------------------------------------------------------------- C2
\* C2: every call Database(...) returns the same object, Database.__init__
\* runs exactly once (on the first call), and connection_string keeps the
\* value given in the first call.
C2_Singleton ==
    /\ \A i, j \in DOMAIN calls : calls[i].ret = calls[j].ret
    /\ Len(initLog) = (IF calls = << >> THEN 0 ELSE 1)
    /\ calls # << >> =>
          /\ initLog = <<calls[1].arg>>
          /\ \A i \in DOMAIN calls :
                heap[calls[i].ret].connection_string = calls[1].arg

\* A later call was made with another connection string than the first.
C2_Witness ==
    /\ Len(calls) >= 3
    /\ calls[2].arg # calls[1].arg
    /\ calls[3].arg # calls[1].arg

\* ---------------------------------------------------------------- C3
\* The definition attribute lookup finds for method m on class c: that of
\* the first class of the MRO whose body mentions m.
RECURSIVE C3_Lookup(_, _, _)
C3_Lookup(cs, c, m) ==
    IF c = 0 THEN "absent"
    ELSE IF cs[c].body[m] # "absent" THEN cs[c].body[m]
    ELSE C3_Lookup(cs, cs[c].base, m)

\* C3: calling a class derived from AbstractBase raises TypeError if and only
\* if some abstract method has no non-abstract implementation available to
\* the class, its own or an inherited one; so Rectangle and the subclasses
\* of Rectangle that leave its methods alone can be instantiated.
C3_TypeErrorIffUnimplemented ==
    lastCall.cls # 0 =>
        (lastCall.outcome = "TypeError"
            <=> \E m \in Methods : C3_Lookup(classes, lastCall.cls, m) = "abstract")

\* ---------------------------------------------------------------- C4
C4_Lines(prefix) == [i \in DOMAIN items |-> prefix \o items[i]]

C4_Consumed == SelectSeq(out, LAMBDA l : l \in Range(C4_Lines("Consumed: ")))
C4_Produced == SelectSeq(out, LAMBDA l : l \in Range(C4_Lines("Produced: ")))

C4_Safety ==
    phase = "producer_consumer" =>
        \* consumed and produced in the order of `items`, each once
        /\ IsPrefix(C4_Consumed, C4_Lines("Consumed: "))
        /\ IsPrefix(C4_Produced, C4_Lines("Produced: "))
        \* nothing is consumed before it was put; what was put and is not
        \* consumed yet is in the queue
        /\ Len(C4_Consumed) <= Len(C4_Produced)
        /\ SelectSeq(queue, LAMBDA x : x # None)
              = SubSeq(items, Len(C4_Consumed) + 1, Len(C4_Produced))
        \* None is put once, last
        /\ \A i \in DOMAIN queue :
              queue[i] = None => i = Len(queue) /\ Len(C4_Produced) = Len(items)
        \* the consumer stops exactly when it has received None
        /\ pc[2] = "done" <=> (pc[1] = "done" /\ queue = << >>)
        /\ pc[2] = "done" => Len(C4_Consumed) = Len(items)
        /\ pc[0] = "done" => pc[1] = "done" /\ pc[2] = "done"

C4_Done == phase = "producer_consumer" /\ pc[0] = "done"

\* C4: in producer_consumer the consumer consumes exactly the produced items,
\* each once and in the order produced, each only after it was put; it stops
\* exactly when it receives the None sentinel, which is put last; and both
\* coroutines terminate, so the gather completes.
C4_ProducerConsumer == [](C4_Safety) /\ <>(C4_Done)

\* The gather completed with all four items consumed.
C4_Witness ==
    /\ C4_Done
    /\ out[Len(out)] = "Consumed: date"
    /\ Len(C4_Consumed) = 4

\* ---------------------------------------------------------------- C5
C5_Received == {WaiterNames[i] \o " received event!" : i \in DOMAIN WaiterNames}

C5_Safety ==
    phase = "event_demo" =>
        \A i \in DOMAIN out :
            out[i] \in C5_Received =>
                /\ event
                /\ \E j \in 1 .. i - 1 : out[j] = "Setting event..."

C5_AllDone ==
    /\ phase = "event_demo"
    /\ pc[0] = "done"
    /\ C5_Received \subseteq Range(out)

\* C5: in event_demo no waiter prints "received event!" before setter has
\* called event.set(); once the event is set both waiters pass event.wait()
\* and the gather of the three coroutines terminates.
C5_EventDemo ==
    /\ [](C5_Safety)
    /\ ((phase = "event_demo" /\ event) ~> C5_AllDone)

\* Both waiters were waiting when the event was set, and the gather is over.
C5_Witness ==
    /\ C5_AllDone
    /\ \E k \in DOMAIN out :
          /\ out[k] = "Setting event..."
          /\ {"Waiter1 waiting for event...", "Waiter2 waiting for event..."}
                \subseteq {out[j] : j \in 1 .. k - 1}

\* ---------------------------------------------------------------- C6
C6_Output == <<"Task started...", "Task was cancelled!", "Caught cancellation in main">>

C6_Safety ==
    phase = "cancel_demo" =>
        \* the three lines in this order, and never "Task completed!"
        /\ IsPrefix(out, C6_Output)
        \* after "Task was cancelled!" the CancelledError is re-raised: the
        \* task ends cancelled
        /\ Len(out) >= 2 => pc[1] = "cancelled"
        /\ pc[0] = "done" => out = C6_Output

C6_Done == phase = "cancel_demo" /\ pc[0] = "done"

\* C6: in cancel_demo the task is cancelled while suspended in its sleep: it
\* never reaches "Task completed!", prints "Task was cancelled!" and
\* re-raises; only afterwards cancel_demo catches the CancelledError and
\* finishes normally.
C6_CancelDemo == [](C6_Safety) /\ <>(C6_Done)

\* cancel_demo has finished after catching the cancellation.
C6_Witness == C6_Done /\ out = C6_Output /\ pc[1] = "cancelled"

\* ---------------------------------------------------------------- C7
\* C7: gather returns results in argument order, not completion order:
\* greet_many's greetings finish Charlie, Bob, Alice while the list returned
\* is Alice, Bob, Charlie; process_with_tasks returns the API, Database,
\* Cache results in that order; limited_concurrency returns 0..4 in order.
C7_GatherOrder ==
    pc[0] = "done" =>
        /\ phase = "greet_many" =>
              /\ out = <<"Hello, Charlie!", "Hello, Bob!", "Hello, Alice!">>
              /\ results = <<"Hello, Alice!", "Hello, Bob!", "Hello, Charlie!">>
        /\ phase = "process_with_tasks" =>
              results = <<[source |-> "API", data |-> "Data from API"],
                          [source |-> "Database", data |-> "Data from Database"],
                          [source |-> "Cache", data |-> "Data from Cache"]>>
        /\ phase = "limited_concurrency" => results = <<0, 1, 2, 3, 4>>

\* greet_many returned after its greetings finished in reverse argument order.
C7_Witness ==
    /\ phase = "greet_many"
    /\ pc[0] = "done"
    /\ order = <<3, 2, 1>>

\* ---------------------------------------------------------------- C8
C8_Safety ==
    phase = "handle_exceptions" =>
        /\ pc[0] # "raised"
        /\ pc[0] = "done" =>
              /\ results = <<[exception |-> "", message |-> "Task 1 succeeded"],
                             [exception |-> "ValueError", message |-> "Task 2 failed!"],
                             [exception |-> "", message |-> "Task 3 succeeded"]>>
              /\ pc[1] = "done" /\ pc[2] = "failed" /\ pc[3] = "done"

C8_Done == phase = "handle_exceptions" /\ pc[0] = "done"

\* C8: in handle_exceptions gather(..., return_exceptions=True) returns the
\* ValueError of task 2 as the second element of results, tasks 1 and 3
\* complete with their success strings in positions 1 and 3, and
\* handle_exceptions finishes without raising.
C8_HandleExceptions == [](C8_Safety) /\ <>(C8_Done)

\* handle_exceptions finished and reported the error of task 2.
C8_Witness ==
    /\ C8_Done
    /\ out = <<"Task 1: Task 1 succeeded", "Task 2: Error - Task 2 failed!",
               "Task 3: Task 3 succeeded">>

\* ---------------------------------------------------------------- C9
\* What one descriptor operation must do, from the state before it.
C9_Step ==
    LET o == last'.obj
        assignedBefore == o \in created /\ DOMAIN dict[o] # {}
    IN  /\ last'.op \in {"set", "call"} /\ ~assignedBefore =>
              /\ last'.raised = ""
              /\ dict'[o]["_readonly_id"] = last'.value
        /\ last'.op = "set" /\ assignedBefore =>
              /\ last'.raised = "AttributeError"
              /\ dict'[o] = dict[o]
        /\ last'.op = "get" /\ ~assignedBefore => last'.result = None
        /\ last'.op = "get" /\ assignedBefore => last'.result = dict[o]["_readonly_id"]
        \* no operation changes a value once stored
        /\ \A e \in created : DOMAIN dict[e] # {} => dict'[e] = dict[e]

\* C9: a ReadOnly attribute can be set once per instance: the first
\* assignment stores the value; every later assignment to the same instance
\* raises AttributeError and leaves the stored value unchanged; before any
\* assignment a read returns initial_value (None).
C9_SetOnce == [][C9_Step]_vars

\* A second assignment was refused while another instance is still unassigned.
C9_Witness ==
    /\ last.op = "set"
    /\ last.raised = "AttributeError"
    /\ dict[last.obj]["_readonly_id"] # last.value
    /\ \E e \in created : dict[e] = << >>

\* ---------------------------------------------------------------- C10
\* C10 as stated: when a script ends, every file it created has been removed
\* again, so the files after the run are the files before it.
C10_NoFilesLeft ==
    ScriptEnded /\ script \in Scripts => DOMAIN fs = DOMAIN fs0

C10_CmFiles == {"test_file.txt", "file1.txt", "file2.txt"}

\* C10 amended: when context_managers.py ends, none of test_file.txt,
\* file1.txt, file2.txt exists and every other file is as before the run;
\* working_with_files.py ends with sample.txt left on disk.
C10_Amended ==
    ScriptEnded =>
        /\ script = "context_managers.py" =>
              /\ DOMAIN fs = DOMAIN fs0 \ C10_CmFiles
              /\ \A f \in DOMAIN fs : fs[f] = fs0[f]
        /\ script = "working_with_files.py" =>
              /\ "sample.txt" \in DOMAIN fs
              /\ DOMAIN fs = DOMAIN fs0 \cup {"sample.txt"}

\* context_managers.py ended in a directory that held none of its files.
C10_Witness ==
    /\ ScriptEnded
    /\ script = "context_managers.py"
    /\ DOMAIN fs0 \cap C10_CmFiles = {}
    /\ DOMAIN fs = DOMAIN fs0
====
